---- MODULE Spec2Model ----
(***************************************************************************)
(* One invocation of the Snowflake node's execute(): connect, run the      *)
(* selected operation (executeQuery with json or csv output, insert,       *)
(* update) against the connection, destroy.  The SDK (conn.connect,        *)
(* conn.execute, conn.destroy, the row stream) and the host's binary-data  *)
(* consumer are the environment: their callbacks and outcomes are chosen   *)
(* nondeterministically.                                                   *)
(*                                                                         *)
(* Text is a sequence of one-character strings, so that quoting and        *)
(* joining are computed character by character as the code does.           *)
(***************************************************************************)
EXTENDS Integers, Sequences, FiniteSets, TLC

\* Bounds of the model.
MaxItems == 2        \* input items of one invocation
MaxRows == 2         \* rows one streamed statement delivers

Q == "\""
NL == "\n"
COMMA == ","

----------------------------------------------------------------------------
\* Scalar values of a row (string, number, boolean, null, undefined), all of
\* one record shape.
Null == [t |-> "null", s |-> <<>>, n |-> 0, b |-> FALSE]
Undefined == [t |-> "undefined", s |-> <<>>, n |-> 0, b |-> FALSE]
Str(s) == [t |-> "string", s |-> s, n |-> 0, b |-> FALSE]
Num(n) == [t |-> "number", s |-> <<>>, n |-> n, b |-> FALSE]
Bool(b) == [t |-> "boolean", s |-> <<>>, n |-> 0, b |-> b]

\* A row (and an input item's json) is an object: its properties in
\* insertion order, each <<key, value>>, keys distinct.
ObjectKeys(row) == [k \in 1..Len(row) |-> row[k][1]]
ObjectValues(row) == [k \in 1..Len(row) |-> row[k][2]]
HasKey(row, h) == \E k \in 1..Len(row) : row[k][1] = h
\* row[h]: undefined when the property is absent.
Prop(row, h) ==
    IF HasKey(row, h)
    THEN row[CHOOSE k \in 1..Len(row) : row[k][1] = h][2]
    ELSE Undefined

RECURSIVE Join(_, _)
\* Array.prototype.join
Join(parts, sep) ==
    IF Len(parts) = 0 THEN <<>>
    ELSE IF Len(parts) = 1 THEN parts[1]
    ELSE parts[1] \o sep \o Join(Tail(parts), sep)

DigitChar(d) ==
    CASE d = 0 -> "0" [] d = 1 -> "1" [] d = 2 -> "2" [] d = 3 -> "3"
      [] d = 4 -> "4" [] d = 5 -> "5" [] d = 6 -> "6" [] d = 7 -> "7"
      [] d = 8 -> "8" [] d = 9 -> "9"

RECURSIVE Digits(_)
Digits(n) ==
    IF n < 10 THEN <<DigitChar(n)>>
    ELSE Digits(n \div 10) \o <<DigitChar(n % 10)>>

\* String(val) for the non-string scalars.
StringOf(val) ==
    CASE val.t = "number" ->
            IF val.n < 0 THEN <<"-">> \o Digits(0 - val.n) ELSE Digits(val.n)
      [] val.t = "boolean" ->
            IF val.b THEN <<"t", "r", "u", "e">> ELSE <<"f", "a", "l", "s", "e">>
      [] val.t = "string" -> val.s
      [] val.t = "null" -> <<"n", "u", "l", "l">>
      [] OTHER -> <<"u", "n", "d", "e", "f", "i", "n", "e", "d">>

\* A replace that leaves the double quotes as they are.
KeepQuotes(s) == s

RECURSIVE ReplaceQuotes(_)
\* val.replace(/"/g, '""')
ReplaceQuotes(s) ==
    IF Len(s) = 0 THEN <<>>
    ELSE (IF Head(s) = Q THEN <<Q, Q>> ELSE <<Head(s)>>) \o ReplaceQuotes(Tail(s))

\* The header line of the first row: every key wrapped in double quotes.
HeaderLine(headers) ==
    Join([k \in 1..Len(headers) |-> <<Q>> \o headers[k] \o <<Q>>], <<COMMA>>) \o <<NL>>

\* One field of a data line.
FieldText(val) ==
    IF val.t = "null" \/ val.t = "undefined" THEN <<>>
    ELSE IF val.t = "string" THEN <<Q>> \o ReplaceQuotes(val.s) \o <<Q>>
    ELSE StringOf(val)

\* The data line of a row: one field per captured header, in header order.
DataLine(headers, row) ==
    Join([k \in 1..Len(headers) |-> FieldText(Prop(row, headers[k]))], <<COMMA>>)
        \o <<NL>>

----------------------------------------------------------------------------
\* Column names and the sample data the inputs are drawn from.
ID == <<"i", "d">>
NAME == <<"n">>
EXTRA == <<"x">>

\* Rows a streamed statement may deliver: differing key orders, a missing
\* and an extra key, null, a string holding quotes and a comma, a number, a
\* boolean, and the empty row.
SampleRows ==
    { <<<<ID, Num(42)>>, <<NAME, Str(<<"B", COMMA, "C">>)>>>>,
      <<<<NAME, Str(<<"h", Q, "i", Q>>)>>, <<ID, Null>>>>,
      <<<<ID, Bool(TRUE)>>, <<EXTRA, Num(0 - 7)>>>>,
      <<>> }

\* Input items' json for insert and update.
SampleJson ==
    { <<<<ID, Num(5)>>, <<NAME, Str(<<"X">>)>>>>,
      <<<<NAME, Str(<<"Y">>)>>, <<ID, Num(6)>>, <<EXTRA, Bool(FALSE)>>>>,
      <<<<NAME, Null>>>> }

\* The 'columns' parameter as the user types it.
ColumnStrings ==
    { <<"n">>,
      <<"i", "d", COMMA, " ", "n">>,
      <<"n", COMMA, "i", "d">>,
      <<"n", " ", COMMA, "x">>,
      <<"n", COMMA, "n">> }

UpdateKeys == {ID, NAME}

Operations == {"executeQuery", "insert", "update"}

SeqsUpTo(S, n) == UNION {[1..k -> S] : k \in 0..n}

QueryItems == [json : {<<>>}, outputFormat : {"json", "csv"}]
RowItems == [json : SampleJson, outputFormat : {"json"}]

\* The rows a non-streamed query resolves with: k rows, k <= MaxRows.
ResultRows == {[k \in 1..n |-> <<<<ID, Num(k)>>>>] : n \in 0..MaxRows}

Err(kind, call) == [kind |-> kind, call |-> call]
NoError == Err("none", 0)

RECURSIVE Split(_, _)
\* String.prototype.split on a one-character separator.
Split(s, sep) ==
    IF \A k \in 1..Len(s) : s[k] # sep THEN <<s>>
    ELSE LET at == CHOOSE k \in 1..Len(s) :
                       s[k] = sep /\ \A j \in 1..(k - 1) : s[j] # sep
         IN  <<SubSeq(s, 1, at - 1)>> \o Split(SubSeq(s, at + 1, Len(s)), sep)

RECURSIVE Trim(_)
\* String.prototype.trim
Trim(s) ==
    IF Len(s) = 0 THEN s
    ELSE IF Head(s) = " " THEN Trim(Tail(s))
    ELSE IF s[Len(s)] = " " THEN Trim(SubSeq(s, 1, Len(s) - 1))
    ELSE s

\* columnString.split(',').map((column) => column.trim())
ParseColumns(columnString) ==
    LET parts == Split(columnString, COMMA)
    IN  [k \in 1..Len(parts) |-> Trim(parts[k])]

Includes(list, x) == \E k \in 1..Len(list) : list[k] = x

\* The update branch's column list: updateKey unshifted when missing.
UpdateColumns(columnString, key) ==
    LET cols == ParseColumns(columnString)
    IN  IF ~Includes(cols, key) THEN <<key>> \o cols ELSE cols

\* obj[k] = v on an object that keeps its properties in insertion order.
SetProp(obj, k, v) ==
    IF HasKey(obj, k)
    THEN [j \in 1..Len(obj) |-> IF obj[j][1] = k THEN <<k, v>> ELSE obj[j]]
    ELSE Append(obj, <<k, v>>)

RECURSIVE CopyProps(_, _, _)
CopyProps(json, properties, acc) ==
    IF Len(properties) = 0 THEN acc
    ELSE LET p == Head(properties)
             v == IF Prop(json, p).t = "undefined" THEN Null ELSE Prop(json, p)
         IN  CopyProps(json, Tail(properties), SetProp(acc, p, v))

\* helpers.copyInputItems(items, columns): per item, an object holding the
\* named properties of its json.
copyInputItems(its, properties) ==
    [k \in 1..Len(its) |-> CopyProps(its[k].json, properties, <<>>)]

QuestionMarks(cols) == [k \in 1..Len(cols) |-> <<"?">>]

\* `INSERT INTO ${table}(${columns.join(',')}) VALUES (?,...)`
InsertQuery(cols) ==
    <<"INSERT INTO ", "t", "(">> \o Join(cols, <<COMMA>>) \o <<") VALUES (">>
        \o Join(QuestionMarks(cols), <<COMMA>>) \o <<")">>

\* `UPDATE ${table} SET ${col} = ?,... WHERE ${updateKey} = ?;`
UpdateQuery(cols, key) ==
    <<"UPDATE ", "t", " SET ">>
        \o Join([k \in 1..Len(cols) |-> cols[k] \o <<" = ", "?">>], <<COMMA>>)
        \o <<" WHERE ">> \o key \o <<" = ", "?", ";">>

\* data.map((element) => Object.values(element))
InsertBinds(data) == [k \in 1..Len(data) |-> ObjectValues(data[k])]

\* data.map((element) => Object.values(element).concat(element[updateKey]))
UpdateBinds(data, key) ==
    [k \in 1..Len(data) |-> ObjectValues(data[k]) \o <<Prop(data[k], key)>>]

----------------------------------------------------------------------------
VARIABLES
    operation, items, columnString, updateKey,    \* the invocation's parameters and input
    pc,             \* where execute() stands
    i,              \* the loop index of executeQuery / update (1-based)
    connected,      \* connect() succeeded
    destroyCalls,   \* conn.destroy calls made
    returnData, outcome,
    columns, data, binds,                         \* locals of insert / update
    calls,          \* every conn.execute call, in issue order
    inFlight,       \* indices of calls whose statement has not completed
    failed,         \* the errors of the statements that failed
    headers, rowCount, streamError, csvStream,    \* locals of one csv export
    execPromise,    \* the promise executeStream() returned
    streamPromise,  \* executeStream(...).then(...).catch(...)
    rowStream,      \* the SDK's side of the streamed statement
    rowsSeen,       \* the rows handed to onRow in this export
    onRowCalls, dataLines,  \* per item: onRow invocations, data lines pushed
    consumer        \* prepareBinaryData of this export: running, returned, threw

inputs == <<operation, items, columnString, updateKey>>
dml == <<columns, data, binds>>
sdk == <<calls, inFlight, failed>>
bridge == <<headers, rowCount, streamError, csvStream>>
promises == <<execPromise, streamPromise, rowStream>>
ghost == <<rowsSeen, onRowCalls, dataLines, consumer>>
vars == <<inputs, pc, i, connected, destroyCalls, returnData, outcome, dml, sdk,
          bridge, promises, ghost>>

NullHeaders == [isNull |-> TRUE, keys |-> <<>>]
NewStream == [chunks |-> <<>>, state |-> "open", error |-> NoError]
Pending == [state |-> "pending", error |-> NoError]
Running == [status |-> "running", error |-> NoError, data |-> <<>>, at |-> "none"]

Init ==
    /\ operation \in Operations
    /\ items \in SeqsUpTo(IF operation = "executeQuery" THEN QueryItems ELSE RowItems,
                           MaxItems)
    /\ columnString \in IF operation = "executeQuery" THEN {<<>>} ELSE ColumnStrings
    /\ updateKey \in IF operation = "update" THEN UpdateKeys ELSE {<<>>}
    /\ pc = "connect"
    /\ i = 1
    /\ connected = FALSE
    /\ destroyCalls = 0
    /\ returnData = <<>>
    /\ outcome = Running
    /\ columns = <<>> /\ data = <<>> /\ binds = <<>>
    /\ calls = <<>> /\ inFlight = {} /\ failed = {}
    /\ headers = NullHeaders /\ rowCount = 0 /\ streamError = NoError
    /\ csvStream = NewStream
    /\ execPromise = Pending /\ streamPromise = "none"
    /\ rowStream = [stage |-> "none", call |-> 0]
    /\ rowsSeen = <<>>
    /\ onRowCalls = [k \in 1..Len(items) |-> 0]
    /\ dataLines = [k \in 1..Len(items) |-> 0]
    /\ consumer = "none"

\* The reactions chained on the executeStream() promise run as soon as it
\* settles, before any further callback of the SDK or of the host.
ReactionsRan == ~(streamPromise = "pending" /\ execPromise.state # "pending")

\* An error escapes execute(): the invocation rejects, nothing is returned.
Throw(e) ==
    /\ pc' = "done"
    /\ outcome' = [status |-> "threw", error |-> e, data |-> <<>>, at |-> pc]

\* conn.execute({sqlText, binds, ...})
Issue(sqlText, bnds, stream, item) ==
    /\ calls' = Append(calls, [sqlText |-> sqlText, binds |-> bnds,
                               streamResult |-> stream, item |-> item])
    /\ inFlight' = inFlight \cup {Len(calls) + 1}

\* The completion of the statement the main flow awaits: the latest call.
Complete(n, error) ==
    /\ inFlight' = inFlight \ {n}
    /\ failed' = IF error = NoError THEN failed ELSE failed \cup {error}
    /\ UNCHANGED calls

JsonRecord(item, row) ==
    [kind |-> "json", item |-> item, rowCount |-> 0, message |-> <<>>, row |-> row]
CsvRecord(item, n) ==
    [kind |-> "csv", item |-> item, rowCount |-> n,
     message |-> <<"Exported ">> \o Digits(n) \o <<" rows to CSV">>, row |-> <<>>]

\* await connect(connection)
Connect ==
    /\ pc = "connect"
    /\ \E ok \in BOOLEAN :
          IF ok
          THEN /\ connected' = TRUE
               /\ pc' = operation
               /\ UNCHANGED outcome
          ELSE /\ Throw(Err("ConnectError", 0))
               /\ UNCHANGED connected
    /\ UNCHANGED <<inputs, i, destroyCalls, returnData, dml, sdk, bridge, promises,
                   ghost>>

\* The text of item k's query after its expressions were resolved.
QueryText(k) == <<"query ">> \o Digits(k)

\* A settled promise ignores every later resolve and reject.
Settle(p, state, error) ==
    IF p.state = "pending" THEN [state |-> state, error |-> error] ELSE p

\* `let rowCount = 0` of the previous iteration kept instead.
CarriedRowCount(previous) == previous

\* `let rowCount = 0`, a new counter for every item.
FreshRowCount(previous) == 0

\* csvStream.push(chunk): a closed stream takes nothing.
Push(stream, chunks) ==
    IF stream.state = "open"
    THEN [stream EXCEPT !.chunks = stream.chunks \o chunks]
    ELSE stream

\* csvStream.push(null)
PushEnd(stream) ==
    IF stream.state = "open" THEN [stream EXCEPT !.state = "ended"] ELSE stream

\* csvStream.destroy(error)
DestroyStream(stream, error) ==
    IF stream.state = "destroyed" THEN stream
    ELSE [stream EXCEPT !.state = "destroyed", !.error = error]

\* The executeQuery loop reaches a csv item: the locals of the export are
\* created and executeStream() is called, not awaited.
StartCsvExport ==
    /\ pc = "executeQuery"
    /\ i <= Len(items)
    /\ items[i].outputFormat = "csv"
    /\ headers' = NullHeaders
    /\ rowCount' = FreshRowCount(rowCount)
    /\ streamError' = NoError
    /\ csvStream' = NewStream
    /\ Issue(QueryText(i), <<>>, TRUE, i)
    /\ execPromise' = Pending
    /\ streamPromise' = "pending"
    /\ rowStream' = [stage |-> "executing", call |-> Len(calls) + 1]
    /\ rowsSeen' = <<>>
    /\ consumer' = "running"
    /\ pc' = "awaitBinary"
    /\ UNCHANGED <<inputs, i, connected, destroyCalls, returnData, outcome, dml,
                   failed, onRowCalls, dataLines>>

\* The executeQuery loop reaches a json item: execute() is called and awaited.
IssueQuery ==
    /\ pc = "executeQuery"
    /\ i <= Len(items)
    /\ items[i].outputFormat # "csv"
    /\ Issue(QueryText(i), <<>>, FALSE, i)
    /\ pc' = "awaitExecute"
    /\ UNCHANGED <<inputs, i, connected, destroyCalls, returnData, outcome, dml,
                   failed, bridge, promises, ghost>>

\* A loop that goes on to the next item when a statement failed.
QueryCallbackContinues ==
    /\ pc = "awaitExecute"
    /\ LET n == Len(calls) IN
       \E error \in BOOLEAN, rows \in ResultRows :
          /\ Complete(n, IF error THEN Err("ExecError", n) ELSE NoError)
          /\ returnData' = IF error THEN returnData
                            ELSE returnData
                                   \o [k \in 1..Len(rows) |-> JsonRecord(i, rows[k])]
          /\ i' = i + 1
          /\ pc' = "executeQuery"
          /\ UNCHANGED outcome
    /\ UNCHANGED <<inputs, connected, destroyCalls, dml, bridge, promises, ghost>>

\* The complete callback of the awaited execute() of a json item.
QueryCallback ==
    /\ pc = "awaitExecute"
    /\ ReactionsRan
    /\ LET n == Len(calls) IN
       \E error \in BOOLEAN, rows \in ResultRows :
          IF error
          THEN /\ Complete(n, Err("ExecError", n))
               /\ Throw(Err("ExecError", n))
               /\ UNCHANGED <<i, returnData>>
          ELSE /\ Complete(n, NoError)
               /\ returnData' = returnData
                      \o [k \in 1..Len(rows) |-> JsonRecord(i, rows[k])]
               /\ i' = i + 1
               /\ pc' = "executeQuery"
               /\ UNCHANGED outcome
    /\ UNCHANGED <<inputs, connected, destroyCalls, dml, bridge, promises, ghost>>

\* The executeQuery loop ends.
QueryLoopExit ==
    /\ pc = "executeQuery"
    /\ i > Len(items)
    /\ pc' = "destroy"
    /\ UNCHANGED <<inputs, i, connected, destroyCalls, returnData, outcome, dml, sdk,
                   bridge, promises, ghost>>

\* The complete callback resolving the promise as soon as the statement ran.
CompleteResolves(p) == Settle(p, "resolved", NoError)

\* The complete callback without error: the promise is left to the stream.
CompleteWithoutError(p) == p

\* The complete callback of the streamed statement: reject on error,
\* otherwise subscribe onRow / reject / resolve to stmt.streamRows().
StreamComplete ==
    /\ rowStream.stage = "executing"
    /\ ReactionsRan
    /\ LET n == rowStream.call IN
       \E error \in BOOLEAN :
          IF error
          THEN /\ rowStream' = [rowStream EXCEPT !.stage = "failed"]
               /\ execPromise' = Settle(execPromise, "rejected", Err("ExecError", n))
               /\ Complete(n, Err("ExecError", n))
          ELSE /\ rowStream' = [rowStream EXCEPT !.stage = "streaming"]
               /\ execPromise' = CompleteWithoutError(execPromise)
               /\ UNCHANGED sdk
    /\ UNCHANGED <<inputs, pc, i, connected, destroyCalls, returnData, outcome, dml,
                   bridge, streamPromise, ghost>>

\* `!headers` taken for "no header yet" also when the header list is empty.
HeadersEmpty(h) == h.isNull \/ Len(h.keys) = 0

\* `!headers`: only null is falsy, the empty array is not.
HeadersMissing(h) == h.isNull

\* The row stream's 'data' event: onRow(row).
OnRow ==
    /\ rowStream.stage = "streaming"
    /\ ReactionsRan
    /\ Len(rowsSeen) < MaxRows
    /\ \E row \in SampleRows :
          LET first == HeadersMissing(headers)
              hs == IF first THEN ObjectKeys(row) ELSE headers.keys
              headerChunk == [kind |-> "header", row |-> 0, text |-> HeaderLine(hs)]
              dataChunk == [kind |-> "data", row |-> Len(rowsSeen) + 1,
                            text |-> DataLine(hs, row)]
          IN  /\ headers' = [isNull |-> FALSE, keys |-> hs]
              /\ csvStream' = Push(csvStream,
                                   (IF first THEN <<headerChunk>> ELSE <<>>)
                                       \o <<dataChunk>>)
              /\ rowCount' = rowCount + 1
              /\ rowsSeen' = Append(rowsSeen, row)
              /\ UNCHANGED consumer
    /\ LET item == calls[rowStream.call].item IN
          /\ onRowCalls' = [onRowCalls EXCEPT ![item] = @ + 1]
          /\ dataLines' = [dataLines EXCEPT
                               ![item] = IF csvStream.state = "open" THEN @ + 1 ELSE @]
    /\ UNCHANGED <<inputs, pc, i, connected, destroyCalls, returnData, outcome, dml,
                   sdk, streamError, promises>>

\* The row stream's 'error' event: reject.
RowError ==
    /\ rowStream.stage = "streaming"
    /\ ReactionsRan
    /\ LET n == rowStream.call IN
          /\ rowStream' = [rowStream EXCEPT !.stage = "errored"]
          /\ execPromise' = Settle(execPromise, "rejected", Err("RowStreamError", n))
          /\ Complete(n, Err("RowStreamError", n))
    /\ UNCHANGED <<inputs, pc, i, connected, destroyCalls, returnData, outcome, dml,
                   bridge, streamPromise, ghost>>

\* The row stream's 'end' event, also one that follows an 'error': resolve.
RowEnd ==
    /\ rowStream.stage \in {"streaming", "errored"}
    /\ ReactionsRan
    /\ execPromise' = Settle(execPromise, "resolved", NoError)
    /\ IF rowStream.stage = "streaming"
       THEN /\ rowStream' = [rowStream EXCEPT !.stage = "ended"]
            /\ Complete(rowStream.call, NoError)
       ELSE /\ rowStream' = [rowStream EXCEPT !.stage = "endedAfterError"]
            /\ UNCHANGED sdk
    /\ UNCHANGED <<inputs, pc, i, connected, destroyCalls, returnData, outcome, dml,
                   bridge, streamPromise, ghost>>

\* .then(() => csvStream.push(null))
ThenHandler ==
    /\ streamPromise = "pending"
    /\ execPromise.state = "resolved"
    /\ csvStream' = PushEnd(csvStream)
    /\ streamPromise' = "resolved"
    /\ UNCHANGED <<inputs, pc, i, connected, destroyCalls, returnData, outcome, dml,
                   sdk, headers, rowCount, streamError, execPromise, rowStream, ghost>>

\* A catch handler that destroys the stream and forgets to record the error.
CatchWithoutRecording ==
    /\ streamPromise = "pending"
    /\ execPromise.state = "rejected"
    /\ csvStream' = DestroyStream(csvStream, execPromise.error)
    /\ streamPromise' = "resolved"
    /\ UNCHANGED <<inputs, pc, i, connected, destroyCalls, returnData, outcome, dml,
                   sdk, headers, rowCount, streamError, execPromise, rowStream, ghost>>

\* .catch((error) => { streamError = error; csvStream.destroy(error); })
CatchHandler ==
    /\ streamPromise = "pending"
    /\ execPromise.state = "rejected"
    /\ streamError' = execPromise.error
    /\ csvStream' = DestroyStream(csvStream, execPromise.error)
    /\ streamPromise' = "resolved"
    /\ UNCHANGED <<inputs, pc, i, connected, destroyCalls, returnData, outcome, dml,
                   sdk, headers, rowCount, execPromise, rowStream, ghost>>

\* await this.helpers.prepareBinaryData(csvStream, ...).  The consumer is the
\* host's: it returns, fails on its own, or fails with the error the stream
\* was destroyed with; nothing here ties its return to the end of the stream.
PrepareBinaryData ==
    /\ pc = "awaitBinary"
    /\ ReactionsRan
    /\ \E how \in {"returns", "throws", "rethrows"} :
          CASE how = "returns" -> /\ pc' = "awaitStream"
                                  /\ consumer' = "returned"
                                  /\ UNCHANGED outcome
            [] how = "throws" -> /\ Throw(Err("ConsumerError", 0))
                                 /\ consumer' = "threw"
            [] how = "rethrows" -> /\ csvStream.state = "destroyed"
                                   /\ Throw(csvStream.error)
                                   /\ consumer' = "threw"
    /\ UNCHANGED <<inputs, i, connected, destroyCalls, returnData, dml, sdk, bridge,
                   promises, rowsSeen, onRowCalls, dataLines>>

\* The main flow going on without `await streamPromise`.
SkipStreamPromise ==
    /\ pc = "awaitStream"
    /\ IF streamError # NoError
       THEN /\ Throw(streamError)
            /\ UNCHANGED <<i, returnData>>
       ELSE /\ returnData' = Append(returnData, CsvRecord(i, rowCount))
            /\ i' = i + 1
            /\ pc' = "executeQuery"
            /\ UNCHANGED outcome
    /\ UNCHANGED <<inputs, connected, destroyCalls, dml, sdk, bridge, promises, ghost>>

\* await streamPromise; if (streamError) throw streamError; returnData.push(...)
AwaitStreamPromise ==
    /\ pc = "awaitStream"
    /\ streamPromise = "resolved"
    /\ IF streamError # NoError
       THEN /\ Throw(streamError)
            /\ UNCHANGED <<i, returnData>>
       ELSE /\ returnData' = Append(returnData, CsvRecord(i, rowCount))
            /\ i' = i + 1
            /\ pc' = "executeQuery"
            /\ UNCHANGED outcome
    /\ UNCHANGED <<inputs, connected, destroyCalls, dml, sdk, bridge, promises, ghost>>

\* One record per element of data, linked to its input index.
DataRecords == [k \in 1..Len(data) |-> JsonRecord(k, data[k])]

\* The insert branch up to its single awaited execute().
IssueInsert ==
    /\ pc = "insert"
    /\ LET cols == ParseColumns(columnString)
           copied == copyInputItems(items, cols)
       IN  /\ columns' = cols
           /\ data' = copied
           /\ binds' = InsertBinds(copied)
           /\ Issue(InsertQuery(cols), InsertBinds(copied), FALSE, 0)
    /\ pc' = "awaitInsert"
    /\ UNCHANGED <<inputs, i, connected, destroyCalls, returnData, outcome, failed,
                   bridge, promises, ghost>>

\* The complete callback of the insert, then data.forEach(... returnData.push).
InsertCallback ==
    /\ pc = "awaitInsert"
    /\ LET n == Len(calls) IN
       \E error \in BOOLEAN :
          IF error
          THEN /\ Complete(n, Err("ExecError", n))
               /\ Throw(Err("ExecError", n))
               /\ UNCHANGED returnData
          ELSE /\ Complete(n, NoError)
               /\ returnData' = returnData \o DataRecords
               /\ pc' = "destroy"
               /\ UNCHANGED outcome
    /\ UNCHANGED <<inputs, i, connected, destroyCalls, dml, bridge, promises, ghost>>

\* The update branch up to its loop.
PrepareUpdate ==
    /\ pc = "update"
    /\ LET cols == UpdateColumns(columnString, updateKey)
           copied == copyInputItems(items, cols)
       IN  /\ columns' = cols
           /\ data' = copied
           /\ binds' = UpdateBinds(copied, updateKey)
    /\ pc' = "updateLoop"
    /\ UNCHANGED <<inputs, i, connected, destroyCalls, returnData, outcome, sdk,
                   bridge, promises, ghost>>

\* for (i < binds.length) await execute(connection, query, binds[i])
IssueUpdate ==
    /\ pc = "updateLoop"
    /\ i <= Len(binds)
    /\ Issue(UpdateQuery(columns, updateKey), binds[i], FALSE, i)
    /\ pc' = "awaitUpdate"
    /\ UNCHANGED <<inputs, i, connected, destroyCalls, returnData, outcome, dml,
                   failed, bridge, promises, ghost>>

\* The complete callback of one row's update.
UpdateCallback ==
    /\ pc = "awaitUpdate"
    /\ LET n == Len(calls) IN
       \E error \in BOOLEAN :
          IF error
          THEN /\ Complete(n, Err("ExecError", n))
               /\ Throw(Err("ExecError", n))
               /\ UNCHANGED i
          ELSE /\ Complete(n, NoError)
               /\ i' = i + 1
               /\ pc' = "updateLoop"
               /\ UNCHANGED outcome
    /\ UNCHANGED <<inputs, connected, destroyCalls, returnData, dml, bridge, promises,
                   ghost>>

\* The update loop ends: data.forEach(... returnData.push).
UpdateLoopExit ==
    /\ pc = "updateLoop"
    /\ i > Len(binds)
    /\ returnData' = returnData \o DataRecords
    /\ pc' = "destroy"
    /\ UNCHANGED <<inputs, i, connected, destroyCalls, outcome, dml, sdk, bridge,
                   promises, ghost>>

\* await destroy(connection): conn.destroy is called.
Destroy ==
    /\ pc = "destroy"
    /\ destroyCalls' = destroyCalls + 1
    /\ pc' = "awaitDestroy"
    /\ UNCHANGED <<inputs, i, connected, returnData, outcome, dml, sdk, bridge,
                   promises, ghost>>

\* The callback of conn.destroy, then `return [returnData]`.
DestroyCallback ==
    /\ pc = "awaitDestroy"
    /\ \E error \in BOOLEAN :
          IF error
          THEN Throw(Err("DestroyError", 0))
          ELSE /\ pc' = "done"
               /\ outcome' = [status |-> "returned", error |-> NoError,
                               data |-> returnData, at |-> pc]
    /\ UNCHANGED <<inputs, i, connected, destroyCalls, returnData, dml, sdk, bridge,
                   promises, ghost>>

Next ==
    \/ Connect
    \/ StartCsvExport \/ IssueQuery \/ QueryCallback \/ QueryLoopExit
    \/ StreamComplete \/ OnRow \/ RowError \/ RowEnd
    \/ ThenHandler \/ CatchHandler
    \/ PrepareBinaryData \/ AwaitStreamPromise
    \/ IssueInsert \/ InsertCallback
    \/ PrepareUpdate \/ IssueUpdate \/ UpdateCallback \/ UpdateLoopExit
    \/ Destroy \/ DestroyCallback

Spec == Init /\ [][Next]_vars

----------------------------------------------------------------------------
\* Reading CSV text back, for the properties of the emitted lines.

RECURSIVE ScanFields(_, _, _, _)
\* The fields of one CSV line without its newline: for each, whether it was
\* quoted and its text with doubled quotes undone.
ScanFields(rest, inQuote, cur, acc) ==
    IF Len(rest) = 0 THEN Append(acc, cur)
    ELSE LET c == Head(rest) IN
         IF inQuote
         THEN IF c = Q
              THEN IF Len(rest) >= 2 /\ rest[2] = Q
                   THEN ScanFields(Tail(Tail(rest)), TRUE,
                                   [cur EXCEPT !.text = Append(@, Q)], acc)
                   ELSE ScanFields(Tail(rest), FALSE, cur, acc)
              ELSE ScanFields(Tail(rest), TRUE, [cur EXCEPT !.text = Append(@, c)], acc)
         ELSE IF c = COMMA
              THEN ScanFields(Tail(rest), FALSE, [quoted |-> FALSE, text |-> <<>>],
                              Append(acc, cur))
              ELSE IF c = Q /\ cur.text = <<>> /\ ~cur.quoted
                   THEN ScanFields(Tail(rest), TRUE, [cur EXCEPT !.quoted = TRUE], acc)
                   ELSE ScanFields(Tail(rest), FALSE,
                                   [cur EXCEPT !.text = Append(@, c)], acc)

ParseLine(body) == ScanFields(body, FALSE, [quoted |-> FALSE, text |-> <<>>], <<>>)

DigitValue(c) == CHOOSE d \in 0..9 : DigitChar(d) = c
IsDigit(c) == \E d \in 0..9 : DigitChar(d) = c

RECURSIVE ParseNat(_)
ParseNat(text) ==
    IF Len(text) = 0 THEN 0
    ELSE 10 * ParseNat(SubSeq(text, 1, Len(text) - 1)) + DigitValue(text[Len(text)])

IsNatText(text) == Len(text) > 0 /\ \A k \in 1..Len(text) : IsDigit(text[k])

\* The text reads as the decimal number n.
ReadsAsNumber(text, n) ==
    IF n < 0
    THEN Len(text) > 1 /\ Head(text) = "-" /\ IsNatText(Tail(text))
            /\ ParseNat(Tail(text)) = 0 - n
    ELSE IsNatText(text) /\ ParseNat(text) = n

\* The line ends with a newline and holds no other one outside quotes.
EndsLine(text) == Len(text) > 0 /\ text[Len(text)] = NL
Body(text) == SubSeq(text, 1, Len(text) - 1)

\* The headers captured for the export: the first row's keys.
FirstRowKeys == ObjectKeys(rowsSeen[1])

----------------------------------------------------------------------------
\* C3: for the rows handed to onRow in one export, the chunks pushed into the
\* CSV stream are nothing for zero rows, and otherwise one header line
\* first, naming the first row's keys each in double quotes, then one data
\* line per row in arrival order; no second header, whatever the later keys.
C3_HeaderOnceThenRows ==
    LET ch == csvStream.chunks IN
    IF rowsSeen = <<>> THEN ch = <<>>
    ELSE /\ Len(ch) = Len(rowsSeen) + 1
         /\ ch[1].kind = "header"
         /\ EndsLine(ch[1].text)
         /\ IF FirstRowKeys = <<>> THEN Body(ch[1].text) = <<>>
            ELSE LET fields == ParseLine(Body(ch[1].text)) IN
                 /\ Len(fields) = Len(FirstRowKeys)
                 /\ \A k \in 1..Len(fields) :
                       fields[k].quoted /\ fields[k].text = FirstRowKeys[k]
         /\ \A k \in 2..Len(ch) : ch[k].kind = "data" /\ ch[k].row = k - 1

\* C3 witness: an export whose first row has no keys and whose second row
\* has some, both pushed.
C3_Witness ==
    /\ Len(rowsSeen) = 2
    /\ rowsSeen[1] = <<>>
    /\ rowsSeen[2] # <<>>
    /\ Len(csvStream.chunks) = 3

\* The field, as read back, is the one a value of this type is written as.
FieldIsFor(field, val) ==
    CASE val.t \in {"null", "undefined"} -> ~field.quoted /\ field.text = <<>>
      [] val.t = "string" -> field.quoted /\ field.text = val.s
      [] val.t = "number" -> ~field.quoted /\ ReadsAsNumber(field.text, val.n)
      [] val.t = "boolean" ->
            /\ ~field.quoted
            /\ field.text = IF val.b THEN <<"t", "r", "u", "e">>
                             ELSE <<"f", "a", "l", "s", "e">>

\* C6: every data line is newline-terminated and holds exactly one field per
\* captured header, in the first row's header order: empty for null,
\* undefined or absent, double-quoted with inner quotes doubled for a string,
\* the bare text for a number or boolean; other keys of the row add nothing.
C6_DataLineFields ==
    \A k \in 1..Len(csvStream.chunks) :
        LET c == csvStream.chunks[k] IN
        c.kind = "data" =>
            /\ EndsLine(c.text)
            /\ IF FirstRowKeys = <<>> THEN Body(c.text) = <<>>
               ELSE LET fields == ParseLine(Body(c.text)) IN
                    /\ Len(fields) = Len(FirstRowKeys)
                    /\ \A j \in 1..Len(fields) :
                          FieldIsFor(fields[j], Prop(rowsSeen[c.row], FirstRowKeys[j]))

\* C6 witness: a line was pushed for a second row whose keys differ from the
\* captured headers, after a first row holding a string with quotes in it.
C6_Witness ==
    /\ Len(rowsSeen) = 2
    /\ Len(csvStream.chunks) = 3
    /\ \E j \in 1..Len(rowsSeen[1]) :
          rowsSeen[1][j][2].t = "string" /\ Includes(rowsSeen[1][j][2].s, Q)
    /\ \E j \in 1..Len(rowsSeen[2]) : ~Includes(FirstRowKeys, rowsSeen[2][j][1])
    /\ \E j \in 1..Len(FirstRowKeys) : ~HasKey(rowsSeen[2], FirstRowKeys[j])

----------------------------------------------------------------------------
\* C1: an invocation whose connect() succeeded has called destroy() on the
\* connection exactly once when it finishes, on every exit path, the failing
\* ones included.
C1_DestroyedOnEveryExit ==
    (pc = "done" /\ connected) => destroyCalls = 1

\* The csv record of the item the current export belongs to.
HasCsvRecord(item) ==
    \E k \in 1..Len(returnData) :
        returnData[k].kind = "csv" /\ returnData[k].item = item

C4_PromiseFollowsStream ==
    /\ rowStream.stage \in {"executing", "streaming"} => execPromise.state = "pending"
    /\ execPromise.state = "resolved" => rowStream.stage = "ended"
    /\ rowStream.stage \in {"failed", "errored", "endedAfterError"} =>
           execPromise.state = "rejected"

\* C4, in every step: a settled promise of the same executeStream() call
\* keeps its outcome.
C4_SettlesOnce ==
    (execPromise.state # "pending" /\ rowStream'.call = rowStream.call) =>
        execPromise' = execPromise

\* C4: the promise executeStream() returns settles at most once, is never
\* resolved before the row stream's 'end' (not by the complete callback), and
\* is rejected by an error of the complete callback or an 'error' before
\* 'end', which a later 'end' does not turn into a resolution.
C4_ExecuteStreamPromise == [](C4_PromiseFollowsStream) /\ [][C4_SettlesOnce]_vars

\* C4 witness: 'end' fired after 'error' and the promise stays rejected.
C4_Witness ==
    /\ rowStream.stage = "endedAfterError"
    /\ execPromise.state = "rejected"
    /\ execPromise.error.kind = "RowStreamError"

\* The number in an 'Exported N rows to CSV' message.
MessageCount(message) == ParseNat(SubSeq(message, 2, Len(message) - 1))

\* C5: the rowCount of every csv output record, and the number in its
\* message, is the number of onRow invocations for that item and the number
\* of data lines pushed into its stream; nothing of an earlier item's count
\* is in it.
C5_RowCountIsOnRowCalls ==
    \A k \in 1..Len(returnData) :
        LET r == returnData[k] IN
        r.kind = "csv" =>
            /\ r.rowCount = onRowCalls[r.item]
            /\ r.rowCount = dataLines[r.item]
            /\ Head(r.message) = "Exported "
            /\ r.message[Len(r.message)] = " rows to CSV"
            /\ MessageCount(r.message) = onRowCalls[r.item]

\* C5 witness: two csv items exported in one invocation, the first with
\* rows, the second with a different number of rows.
C5_Witness ==
    /\ Len(returnData) = 2
    /\ returnData[1].kind = "csv" /\ returnData[2].kind = "csv"
    /\ returnData[1].rowCount = 2
    /\ returnData[2].rowCount = 1
    /\ outcome.status = "returned"

\* A row's value for a column, as a bind holds it (null when it has none).
RowValue(json, column) ==
    IF HasKey(json, column) THEN Prop(json, column) ELSE Null

\* A row's values for the columns, in column-list order.
RowValues(json, cols) == [k \in 1..Len(cols) |-> RowValue(json, cols[k])]

\* C7: for update, updateKey is put in front of the column list exactly when
\* the list lacks it; then one execute() per input row, in input order, all
\* with the same SQL text, each with the row's values for the columns in
\* column-list order followed by the row's updateKey value, so with one bind
\* more than there are columns.
C7_UpdateBindsPerRow ==
    (operation = "update" /\ connected /\ pc # "update") =>
        LET parsed == ParseColumns(columnString) IN
        /\ Includes(parsed, updateKey) => columns = parsed
        /\ ~Includes(parsed, updateKey) =>
               Head(columns) = updateKey /\ Tail(columns) = parsed
        /\ \A n \in 1..Len(calls) :
              /\ calls[n].item = n
              /\ calls[n].sqlText = calls[1].sqlText
              /\ calls[n].binds =
                     Append(RowValues(items[n].json, columns),
                            RowValue(items[n].json, updateKey))
              /\ Len(calls[n].binds) = Len(columns) + 1
        /\ pc \in {"destroy", "awaitDestroy"} => Len(calls) = Len(items)

\* C8: for insert, whatever the number of input rows, exactly one execute()
\* is issued, with one bind list per input row in input order, each the row's
\* values in column-list order; output records exist only once that call
\* succeeded, one per input row.
C8_InsertOneBatch ==
    (operation = "insert" /\ connected /\ pc # "insert") =>
        /\ Len(calls) = 1
        /\ Len(calls[1].binds) = Len(items)
        /\ \A k \in 1..Len(items) :
              calls[1].binds[k] = RowValues(items[k].json, ParseColumns(columnString))
        /\ returnData # <<>> => 1 \notin inFlight /\ failed = {}
        /\ pc \in {"destroy", "awaitDestroy"} =>
              /\ Len(returnData) = Len(items)
              /\ \A k \in 1..Len(items) : returnData[k].item = k

\* The statements of executeQuery and update follow the input order, and a
\* failed statement is the last one issued; nothing is returned after it.
StopsAtFirstFailure ==
    /\ \A n \in 1..Len(calls) : calls[n].item = n
    /\ \A e \in failed :
          /\ e.call = Len(calls)
          /\ outcome.status # "returned"
          /\ pc = "done" => outcome.status = "threw" /\ outcome.data = <<>>

\* C9 as stated: in executeQuery and update, statements are issued in input
\* order, none is issued after one failed, and the invocation fails with the
\* failed statement's error, returning no output records.
C9_FailsWithStatementError ==
    operation \in {"executeQuery", "update"} =>
        /\ StopsAtFirstFailure
        /\ \A e \in failed : pc = "done" => outcome.error = e

\* C9 amended: as above, but the error the invocation fails with is the
\* failed statement's or, for a csv item whose binary-data consumer failed on
\* its own, the consumer's.
C9_FailsAtFirstFailure ==
    operation \in {"executeQuery", "update"} =>
        /\ StopsAtFirstFailure
        /\ \A e \in failed :
              pc = "done" =>
                  \/ outcome.error = e
                  \/ /\ calls[e.call].streamResult
                     /\ outcome.error = Err("ConsumerError", 0)
                     /\ outcome.at = "awaitBinary"

\* C9 witness: the statement of the second item failed after the first
\* item's records were collected, and the invocation ended with its error.
C9_Witness ==
    /\ operation = "executeQuery"
    /\ Len(calls) = 2
    /\ failed = {Err("ExecError", 2)}
    /\ returnData # <<>>
    /\ pc = "done"
    /\ outcome.error = Err("ExecError", 2)
    /\ outcome.data = <<>>

\* C10, in every state: at most one statement is in flight, none before
\* connect() succeeded and none once destroy() is called.
C10_OneInFlight ==
    /\ Cardinality(inFlight) <= 1
    /\ ~connected => calls = <<>>
    /\ (pc = "awaitDestroy" \/ destroyCalls > 0) => inFlight = {}

\* C10, in every step: a statement is issued only when the one before it has
\* completed; after a streamed one, only when the consumer has returned and
\* the executeStream promise has settled.
C10_IssuedAfterCompletion ==
    Len(calls') > Len(calls) =>
        /\ inFlight = {}
        /\ (calls # <<>> /\ calls[Len(calls)].streamResult) =>
               /\ consumer = "returned"
               /\ execPromise.state # "pending"

\* C10: at most one statement is in flight on the connection at any time,
\* none before connect() succeeded or when destroy() is called, and the next
\* statement is issued only after the previous one completed, for csv after
\* the consumer returned and the executeStream promise settled.
C10_SequentialStatements == [](C10_OneInFlight) /\ [][C10_IssuedAfterCompletion]_vars

\* C10 witness: the statement of a second item in flight after a csv export
\* of the first item that delivered rows.
C10_Witness ==
    /\ Len(calls) = 2
    /\ calls[1].streamResult
    /\ inFlight = {2}
    /\ Len(returnData) = 1 /\ returnData[1].rowCount > 0

====
